---- MODULE Spec2Model ----
(***************************************************************************)
(* Models of the programs of the repository.                               *)
(*                                                                         *)
(* src/src/6/async_http_mod.py, the asynchronous URL fetcher:              *)
(* URLFetcher.fetch_urls drives one _fetch_single_url task per input URL   *)
(* under an asyncio.Semaphore, retries failed attempts after a sleep, and  *)
(* appends the successful results to a JSONL sink as they complete.        *)
(*                                                                         *)
(* src/src/1/lru_cache.py, the lru_cache decorator; src/src/8, the ASGI    *)
(* currency proxy; src/src/2, the two singletons; src/src/4, the binary    *)
(* search; src/src/5/async_http.py, the fetch_urls without retries. Every  *)
(* program has its own variables and its own specification; the variables  *)
(* of the other programs stay at their initial values.                     *)
(***************************************************************************)
EXTENDS Integers, Sequences, FiniteSets, TLC

\* ------------------------------------------------------------------ bounds
MaxUrls == 2
MaxConcurrent == 2
MaxRetries == 2
MaxCalls == 7
MaxSize == 2
MaxPathLen == 5
MaxRefs == 3
MaxOps == 3
MaxLen == 4
MaxValue == 3
MaxSimpleUrls == 6
MaxMixedUrls == 3

\* ------------------------------------------------------------- the inputs
URLS == {"http://a", "http://b"}

\* Response bodies a Transport exchange may deliver with a status.
Bodies == {"{\"id\":1}", "null", "<html>"}
Statuses == {200, 500}

\* Python's None, and the parsed values, are named by their repr.
None == "None"

\* What one session.get(url) exchange can do: deliver a response, or raise.
Outcomes ==
  [kind : {"response"}, status : {200}, body : Bodies]
    \cup [kind : {"response"}, status : Statuses \ {200}, body : {"<html>"}]
    \cup [kind : {"timeout", "client_error", "exception"}, status : {0}, body : {""}]

\* --------------------------------------------------------------- the state
VARIABLES
  urls,            \* the input list of fetch_urls
  max_concurrent,  \* URLFetcher.max_concurrent
  max_retries,     \* URLFetcher.max_retries
  sem_value,       \* URLFetcher.semaphore._value
  waiters,         \* URLFetcher.semaphore._waiters, FIFO
  holder,          \* the tasks inside "async with self.semaphore"
  pc,              \* the position of every _fetch_single_url task
  attempt,         \* the loop variable of every task
  exchanges,       \* the number of session.get calls every task has made
  failures,        \* the number of those exchanges that ended in a failure
  result,          \* the FetchResult every finished task returned
  done_queue,      \* the finished tasks as_completed has not yet yielded
  opc,             \* the position of fetch_urls (and of its caller)
  sink,            \* the lines of output_file that are on disk
  stats,           \* the stats dictionary of fetch_urls
  delays,          \* the backoff delays every task has slept, in order
  final_outcome,   \* the outcome of the exchange that ended every task
  completed,       \* the tasks in the order in which they finished
  buffer,          \* the lines written to the file object and not yet flushed
  rerun,           \* fetch_urls has been called a second time
  prior,           \* the number of lines the sink held when that call began
  ret,             \* what the run handed to its caller
  \* src/src/1/lru_cache.py
  maxsize,         \* the maxsize the decorator was given, or None
  cache,           \* the OrderedDict of the wrapper, oldest entry first
  call_count,      \* the number of calls of the wrapped function
  returned,        \* what the last call of the wrapper returned
  wrapper_calls,   \* the number of calls of the wrapper
  misses,          \* the number of those calls whose key was not cached
  recency,         \* the arguments used so far, least recently used first
  followed,        \* the calls so far are the first calls of the self-test
  \* src/src/8/asgi.py
  scope,           \* the ASGI scope asgi_app was called with
  apc,             \* the position of asgi_app
  pending,         \* the messages asgi_app has built and not yet sent
  sent,            \* the messages asgi_app has sent, in order
  fetch_calls,     \* the number of calls of fetch_exchange_rates_async
  upstream,        \* how the upstream exchange of that call ended
  \* src/src/2/singleton_meta.py
  instances,       \* SingletonMeta._instances
  history,         \* the history list of every object
  init_runs,       \* the number of __init__ runs of every class
  refs,            \* the references the constructor calls returned
  op_calls,        \* the number of add and multiply calls made on every class
  \* src/src/2/singleton_new.py
  g_instance,      \* GeometryCalculator._instance
  g_initialized,   \* GeometryCalculator._initialized
  g_objects,       \* the number of objects object.__new__ has made
  calculation_count, \* the calculation_count attribute of every object
  g_refs,          \* the references the constructor calls returned
  area_calls,      \* the area computations made, in order
  \* src/src/4/search_at_list.py
  array,           \* the list search is called with
  number,          \* the number it looks for
  left,            \* the local variables of search
  right,
  mid,
  spc,             \* the position of search
  found,           \* what search returned
  \* src/src/5/async_http.py
  s_urls,          \* the list of URLs fetch_urls is called with
  s_value,         \* semaphore._value
  s_waiters,       \* semaphore._waiters, FIFO
  s_pc,            \* the position of every fetch_single_url task
  s_results,       \* what every finished task returned
  s_outcomes,      \* how the request of every finished task ended
  s_opc,           \* the position of fetch_urls
  s_file,          \* the lines of the results file
  s_ret            \* what fetch_urls returned

\* The variables of every program, and of the programs other than the fetcher.
fetcher_vars == <<urls, max_concurrent, max_retries, sem_value, waiters,
                  holder, pc, attempt, exchanges, failures, result, done_queue,
                  opc, sink, stats, delays, final_outcome, completed, buffer,
                  rerun, prior, ret>>
lru_vars == <<maxsize, cache, call_count, returned, wrapper_calls, misses,
              recency, followed>>
asgi_vars == <<scope, apc, pending, sent, fetch_calls, upstream>>
meta_vars == <<instances, history, init_runs, refs, op_calls>>
geom_vars == <<g_instance, g_initialized, g_objects, calculation_count,
               g_refs, area_calls>>
search_vars == <<array, number, left, right, mid, spc, found>>
simple_vars == <<s_urls, s_value, s_waiters, s_pc, s_results, s_outcomes,
                 s_opc, s_file, s_ret>>
lib_vars == <<lru_vars, asgi_vars, meta_vars, geom_vars, search_vars,
              simple_vars>>

vars == <<fetcher_vars, lib_vars>>

\* The configuration, the semaphore and the task state, as groups.
cfg_vars == <<urls, max_concurrent, max_retries>>
sem_vars == <<sem_value, waiters, holder>>
file_vars == <<sink, buffer>>

Tasks == 1..Len(urls)

\* All sequences over S of length at most n.
SeqsUpTo(S, n) == UNION {[1..k -> S] : k \in 0..n}

\* The input lists: every list of at most MaxUrls URLs, up to the renaming of
\* the URLs (the code never looks into a URL, so a list and its renaming
\* behave alike); lists with a repeated URL are among them.
UrlLists == {s \in SeqsUpTo(URLS, MaxUrls) : s # <<>> => s[1] = "http://a"}

\* ------------------------------------------------------- pure functions
\* json.loads: the parsed value, or a JSONDecodeError.
json_loads(text) ==
  CASE text = "{\"id\":1}"  -> [ok |-> TRUE, value |-> "{'id': 1}"]
    [] text = "{\"id\": 1}" -> [ok |-> TRUE, value |-> "{'id': 1}"]
    [] text = "null"        -> [ok |-> TRUE, value |-> None]
    [] OTHER                -> [ok |-> FALSE, value |-> "Expecting value"]

\* json.dumps(value, ensure_ascii=False).
json_dumps(value) ==
  CASE value = "{'id': 1}" -> "{\"id\": 1}"
    [] value = None        -> "null"
    [] OTHER               -> "\"" \o value \o "\""

FetchResult(url, success, content, error) ==
  [url |-> url, success |-> success, content |-> content, error |-> error]

\* self.max_retries, as __init__ stores it and the loop reads it.
RetryBudgetPlusOne == max_retries + 1
RetryBudget == max_retries

\* "if attempt == self.max_retries": the attempt is the last permitted one.
IsLastAttempt(a) == a = RetryBudget

\* "if attempt < self.max_retries": a backoff sleep follows the attempt.
SleepsAfter(a) == a < RetryBudget

\* "for attempt in range(self.max_retries + 1)": the loop has an iteration a.
InRangeShort(a) == a < RetryBudget
InRange(a) == a < RetryBudget + 1

\* The error message one failed exchange sets.
ErrorMsgTimeoutUnclassified(o) ==
  CASE o.kind = "response" /\ o.status = 200 ->
         "Invalid JSON: " \o json_loads(o.body).value
    [] o.kind = "response"     -> "HTTP " \o ToString(o.status)
    [] o.kind = "client_error" -> "Client error: Cannot connect to host"
    [] OTHER                   -> "Unexpected error: boom"
ErrorMsg(o) ==
  CASE o.kind = "response" /\ o.status = 200 ->
         "Invalid JSON: " \o json_loads(o.body).value
    [] o.kind = "response"     -> "HTTP " \o ToString(o.status)
    [] o.kind = "timeout"      -> "Timeout"
    [] o.kind = "client_error" -> "Client error: Cannot connect to host"
    [] OTHER                   -> "Unexpected error: boom"

\* The exchange ended in a failure outcome: anything but 200 with a body
\* json.loads accepts.
IsFailure(o) ==
  ~(o.kind = "response" /\ o.status = 200 /\ json_loads(o.body).ok)

\* The body of one loop iteration, from the end of the exchange on: the
\* FetchResult it returns, or <<>> when it returns nothing and the loop goes on.
AttemptReturnFatalTimeout(url, a, o) ==
  IF ~IsFailure(o)
    THEN <<FetchResult(url, TRUE, json_loads(o.body).value, None)>>
    ELSE IF IsLastAttempt(a) \/ o.kind = "timeout"
           THEN <<FetchResult(url, FALSE, None, ErrorMsg(o))>>
           ELSE <<>>
AttemptReturn(url, a, o) ==
  IF ~IsFailure(o)
    THEN <<FetchResult(url, TRUE, json_loads(o.body).value, None)>>
    ELSE IF IsLastAttempt(a)
           THEN <<FetchResult(url, FALSE, None, ErrorMsg(o))>>
           ELSE <<>>

\* The return after the loop.
FallbackResult(url) == FetchResult(url, FALSE, None, "Max retries exceeded")

\* asyncio.Semaphore.locked().
SemLockedBelowZero(v, ws) == v < 0 \/ ws # <<>>
SemLocked(v, ws) == v = 0 \/ ws # <<>>

\* "if result.success and result.content is not None".
IsWritten(r) == r.success /\ r.content # None

\* One line of the sink: json.dumps({"url": ..., "content": ...}).
SinkLine(r) == [url |-> r.url, content |-> json_dumps(r.content)]

\* The sink after fetch_urls has handled result r: the record of a written
\* result is appended (and flushed), nothing else is.
SinkAfterUnconditional(s, r) == Append(s, SinkLine(r))
SinkAfter(s, r) == IF IsWritten(r) THEN Append(s, SinkLine(r)) ELSE s

\* The statistics after fetch_urls has handled result r.
StatsAfterElifFailed(st, r) ==
  IF IsWritten(r) THEN [st EXCEPT !.successful = @ + 1]
  ELSE IF ~r.success THEN [st EXCEPT !.failed = @ + 1]
  ELSE st
StatsAfter(st, r) ==
  IF IsWritten(r) THEN [st EXCEPT !.successful = @ + 1]
                  ELSE [st EXCEPT !.failed = @ + 1]

\* The task keeps its slot while it sleeps: the sleep is outside
\* "async with self.semaphore", so it does not.
KeepsSlotInBackoffInside(i) == TRUE
KeepsSlotInBackoff(i) == FALSE

\* "await asyncio.sleep(1 * (attempt + 1))": the delay after failed attempt a.
BaseDelay == 1
BackoffDelayConstant(a) == BaseDelay
BackoffDelay(a) == BaseDelay * (a + 1)

\* The outcome of an exchange leaves _fetch_single_url as an exception: the
\* three except clauses end in "except Exception", so none of Outcomes does.
PropagatesUnexpected(o) == o.kind = "exception"
Propagates(o) == FALSE

\* asyncio.Semaphore.release(): the first waiter, if any, is woken.
WakesNextNever(ws) == FALSE
WakesNext(ws) == ws # <<>>

\* asyncio.as_completed: the next result yielded is that of the task that
\* finished first among those not yet yielded.
NextCompletedInputOrder(q) ==
  CHOOSE i \in {q[k] : k \in 1..Len(q)} : \A k \in 1..Len(q) : i <= q[k]
NextCompleted(q) == Head(q)

\* open(output_file, "w"): whatever the file held is gone.
OpenedSinkAppend(s) == s
OpenedSink(s) == <<>>

\* "f.flush()" follows every "f.write(...)".
FlushesAfterWriteNever(r) == FALSE
FlushesAfterWrite(r) == TRUE

\* "for future in asyncio.as_completed(tasks)" is over: every task has been
\* yielded.
LoopExhaustedAfterAny == Tasks = {} \/ \E i \in Tasks : pc[i] = "consumed"
LoopExhausted == \A i \in Tasks : pc[i] = "consumed"

\* What a run hands to its caller: a dictionary it returns, or an exception.
EmptyDict == [k \in {} |-> 0]
NoReturn == [kind |-> "none", value |-> EmptyDict, error |-> None]
Returns(d) == [kind |-> "returned", value |-> d, error |-> None]
Raises(e) == [kind |-> "raised", value |-> EmptyDict, error |-> e]

\* fetch_urls_from_file without URLs: "return {}".
EmptyInputReturnZeroStats ==
  Returns([total |-> 0, successful |-> 0, failed |-> 0])
EmptyInputReturn == Returns(EmptyDict)

\* open(output_file, "w") fails: the OSError leaves fetch_urls, and
\* fetch_urls_from_file logs it and raises it again.
OnOpenErrorSwallowed(st) == Returns(st)
OnOpenError(st) == Raises("OSError")

\* ------------------------------------------- the programs that do not run
\* A value that is absent (Python's None where the other values are not
\* strings, or a name that is not bound yet) is the empty tuple, and a value v
\* that is present is <<v>>.
Nothing == <<>>
Some(v) == <<v>>

\* The state of each of the other programs before it is used.
FetcherIdle ==
  /\ urls = <<>>
  /\ max_concurrent = 1
  /\ max_retries = 0
  /\ sem_value = 1
  /\ waiters = <<>>
  /\ holder = {}
  /\ pc = <<>>
  /\ attempt = <<>>
  /\ exchanges = <<>>
  /\ failures = <<>>
  /\ result = <<>>
  /\ done_queue = <<>>
  /\ opc = "idle"
  /\ sink = <<>>
  /\ stats = [total |-> 0, successful |-> 0, failed |-> 0]
  /\ delays = <<>>
  /\ final_outcome = <<>>
  /\ completed = <<>>
  /\ buffer = <<>>
  /\ rerun = FALSE
  /\ prior = 0
  /\ ret = [kind |-> "none", value |-> <<>>, error |-> "None"]

LruIdle ==
  /\ maxsize = Nothing
  /\ cache = <<>>
  /\ call_count = 0
  /\ returned = Nothing
  /\ wrapper_calls = 0
  /\ misses = 0
  /\ recency = <<>>
  /\ followed = TRUE

AsgiIdle ==
  /\ scope = [type |-> "", method |-> "", path |-> <<>>]
  /\ apc = "idle"
  /\ pending = <<>>
  /\ sent = <<>>
  /\ fetch_calls = 0
  /\ upstream = Nothing

MetaIdle ==
  /\ instances = <<>>
  /\ history = <<>>
  /\ init_runs = <<>>
  /\ refs = <<>>
  /\ op_calls = <<>>

GeomIdle ==
  /\ g_instance = Nothing
  /\ g_initialized = FALSE
  /\ g_objects = 0
  /\ calculation_count = <<>>
  /\ g_refs = <<>>
  /\ area_calls = <<>>

SearchIdle ==
  /\ array = <<>>
  /\ number = 0
  /\ left = 0
  /\ right = 0
  /\ mid = Nothing
  /\ spc = "idle"
  /\ found = Nothing

SimpleIdle ==
  /\ s_urls = <<>>
  /\ s_value = 0
  /\ s_waiters = <<>>
  /\ s_pc = <<>>
  /\ s_results = <<>>
  /\ s_outcomes = <<>>
  /\ s_opc = "idle"
  /\ s_file = <<>>
  /\ s_ret = Nothing

\* ------------------------------------------------------------ the actions
\* A fetcher built with max_retries among retries, before fetch_urls runs.
InitFetcher(retries) ==
  /\ urls \in UrlLists
  /\ max_concurrent \in 1..MaxConcurrent
  /\ max_retries \in retries
  /\ sem_value = max_concurrent
  /\ waiters = <<>>
  /\ holder = {}
  /\ pc = [i \in Tasks |-> "new"]
  /\ attempt = [i \in Tasks |-> 0]
  /\ exchanges = [i \in Tasks |-> 0]
  /\ failures = [i \in Tasks |-> 0]
  /\ result = <<>>
  /\ done_queue = <<>>
  /\ opc \in {"start", "file_start"}
  /\ sink = <<>>
  /\ stats = [total |-> Len(urls), successful |-> 0, failed |-> 0]
  /\ delays = [i \in Tasks |-> <<>>]
  /\ final_outcome = <<>>
  /\ completed = <<>>
  /\ buffer = <<>>
  /\ rerun = FALSE
  /\ prior = 0
  /\ ret = NoReturn
  /\ LruIdle /\ AsgiIdle /\ MetaIdle /\ GeomIdle /\ SearchIdle
  /\ SimpleIdle

\* The fetcher has a retry budget of 0 or more.
Init == InitFetcher(0..MaxRetries)

\* URLFetcher.__init__ stores the max_retries it is given unchecked: a
\* negative one too.
InitAnyRetries == InitFetcher(-1..MaxRetries)

\* fetch_urls_from_file has read the URLs: without any it returns at once,
\* otherwise it builds the fetcher and calls fetch_urls.
ReadUrls ==
  /\ opc = "file_start"
  /\ IF urls = <<>>
       THEN /\ opc' = "returned_empty"
            /\ ret' = EmptyInputReturn
       ELSE /\ opc' = "start"
            /\ UNCHANGED ret
  /\ UNCHANGED lib_vars
  /\ UNCHANGED <<cfg_vars, sem_vars, file_vars, pc, attempt, exchanges,
                 failures, result, done_queue, stats, delays, final_outcome,
                 completed, rerun, prior>>

\* read_urls_from_file raises (the input file is missing): the exception is
\* logged and raised again.
ReadFails ==
  /\ opc = "file_start"
  /\ opc' = "raised"
  /\ ret' = Raises("FileNotFoundError")
  /\ UNCHANGED lib_vars
  /\ UNCHANGED <<cfg_vars, sem_vars, file_vars, pc, attempt, exchanges,
                 failures, result, done_queue, stats, delays, final_outcome,
                 completed, rerun, prior>>

\* fetch_urls opens (truncates) the sink and as_completed schedules the tasks.
OpenSink ==
  /\ opc = "start"
  /\ opc' = "draining"
  /\ sink' = OpenedSink(sink)
  /\ buffer' = <<>>
  /\ pc' = [i \in Tasks |-> "scheduled"]
  /\ UNCHANGED lib_vars
  /\ UNCHANGED <<cfg_vars, sem_vars, attempt, exchanges, failures, result,
                 done_queue, stats, delays, final_outcome, completed, rerun,
                 prior, ret>>

\* The sink cannot be opened: open() raises before any task is scheduled.
OpenFails ==
  /\ opc = "start"
  /\ ret' = OnOpenError(stats)
  /\ opc' = IF ret'.kind = "raised" THEN "raised" ELSE "returned"
  /\ UNCHANGED lib_vars
  /\ UNCHANGED <<cfg_vars, sem_vars, file_vars, pc, attempt, exchanges,
                 failures, result, done_queue, stats, delays, final_outcome,
                 completed, rerun, prior>>

\* Task i reaches "async with self.semaphore" for its attempt: it takes a slot
\* and starts its exchange, or queues up behind the semaphore.
Acquire(i) ==
  IF SemLocked(sem_value, waiters)
    THEN /\ waiters' = Append(waiters, i)
         /\ pc' = [pc EXCEPT ![i] = "waiting"]
         /\ UNCHANGED <<sem_value, holder, exchanges>>
    ELSE /\ sem_value' = sem_value - 1
         /\ holder' = holder \cup {i}
         /\ pc' = [pc EXCEPT ![i] = "inflight"]
         /\ exchanges' = [exchanges EXCEPT ![i] = @ + 1]
         /\ UNCHANGED waiters

\* A scheduled task runs its first step.
TaskStart(i) ==
  /\ pc[i] = "scheduled"
  /\ IF InRange(attempt[i])
       THEN /\ Acquire(i)
            /\ UNCHANGED <<result, done_queue, completed>>
       ELSE /\ pc' = [pc EXCEPT ![i] = "done"]
            /\ result' = result @@ (i :> FallbackResult(urls[i]))
            /\ done_queue' = Append(done_queue, i)
            /\ completed' = Append(completed, i)
            /\ UNCHANGED <<sem_value, waiters, holder, exchanges>>
  /\ UNCHANGED lib_vars
  /\ UNCHANGED <<cfg_vars, file_vars, attempt, failures, opc, stats, delays,
                 final_outcome, rerun, prior, ret>>

\* The exchange of task i ends with outcome o: the slot is released (and handed
\* to the first waiter), and the task returns its result, raises, or goes to
\* sleep.
ExchangeEnd(i, o) ==
  /\ pc[i] = "inflight"
  /\ LET ret_ == IF Propagates(o) THEN <<>>
                 ELSE AttemptReturn(urls[i], attempt[i], o)
         keep == ret_ = <<>> /\ ~Propagates(o) /\ KeepsSlotInBackoff(i)
         wake == ~keep /\ WakesNext(waiters)
         next == IF Propagates(o) THEN "raised"
                 ELSE IF ret_ # <<>> THEN "done"
                 ELSE IF SleepsAfter(attempt[i]) THEN "sleeping"
                 ELSE IF InRange(attempt[i] + 1) THEN "scheduled"
                 ELSE "done"
         res  == IF ret_ # <<>> THEN ret_[1] ELSE FallbackResult(urls[i])
     IN /\ failures' = [failures EXCEPT ![i] = IF IsFailure(o) THEN @ + 1 ELSE @]
        /\ IF keep
             THEN UNCHANGED <<sem_value, waiters, holder, exchanges>>
             ELSE IF wake
               THEN /\ waiters' = Tail(waiters)
                    /\ holder' = (holder \ {i}) \cup {Head(waiters)}
                    /\ exchanges' = [exchanges EXCEPT ![Head(waiters)] = @ + 1]
                    /\ UNCHANGED sem_value
               ELSE /\ sem_value' = sem_value + 1
                    /\ holder' = holder \ {i}
                    /\ UNCHANGED <<waiters, exchanges>>
        /\ pc' = [j \in Tasks |->
                    IF j = i THEN next
                    ELSE IF wake /\ j = Head(waiters) THEN "inflight"
                    ELSE pc[j]]
        /\ attempt' = [attempt EXCEPT ![i] = IF next = "scheduled" THEN @ + 1 ELSE @]
        /\ delays' = [delays EXCEPT ![i] =
                        IF next = "sleeping"
                          THEN Append(@, BackoffDelay(attempt[i])) ELSE @]
        /\ IF next = "done"
             THEN result' = result @@ (i :> res)
             ELSE UNCHANGED result
        /\ IF next \in {"done", "raised"}
             THEN /\ done_queue' = Append(done_queue, i)
                  /\ completed' = Append(completed, i)
                  /\ final_outcome' = final_outcome @@ (i :> o)
             ELSE UNCHANGED <<done_queue, completed, final_outcome>>
  /\ UNCHANGED lib_vars
  /\ UNCHANGED <<cfg_vars, file_vars, opc, stats, rerun, prior, ret>>

\* The backoff sleep of task i is over: the next iteration starts.
SleepDone(i) ==
  /\ pc[i] = "sleeping"
  /\ attempt' = [attempt EXCEPT ![i] = @ + 1]
  /\ Acquire(i)
  /\ UNCHANGED lib_vars
  /\ UNCHANGED <<cfg_vars, file_vars, failures, result, done_queue, opc, stats,
                 delays, final_outcome, completed, rerun, prior, ret>>

\* fetch_urls takes the next completed result: it writes (and flushes) the
\* record of a success and counts the result. A task that ended with an
\* exception raises it out of "await future": the file is closed and
\* fetch_urls is left.
ProcessResult ==
  /\ opc = "draining"
  /\ done_queue # <<>>
  /\ LET i == NextCompleted(done_queue)
     IN /\ done_queue' = SelectSeq(done_queue, LAMBDA j : j # i)
        /\ IF pc[i] = "raised"
             THEN /\ opc' = "raised"
                  /\ ret' = Raises("Exception")
                  /\ sink' = sink \o buffer
                  /\ buffer' = <<>>
                  /\ UNCHANGED <<stats, pc>>
             ELSE /\ IF FlushesAfterWrite(result[i])
                       THEN /\ sink' = SinkAfter(sink \o buffer, result[i])
                            /\ buffer' = <<>>
                       ELSE /\ buffer' = SinkAfter(buffer, result[i])
                            /\ UNCHANGED sink
                  /\ stats' = StatsAfter(stats, result[i])
                  /\ pc' = [pc EXCEPT ![i] = "consumed"]
                  /\ UNCHANGED <<opc, ret>>
  /\ UNCHANGED lib_vars
  /\ UNCHANGED <<cfg_vars, sem_vars, attempt, exchanges, failures, result,
                 delays, final_outcome, completed, rerun, prior>>

\* Every task has been yielded: fetch_urls closes the sink and returns stats.
Return ==
  /\ opc = "draining"
  /\ LoopExhausted
  /\ opc' = "returned"
  /\ sink' = sink \o buffer
  /\ buffer' = <<>>
  /\ ret' = Returns(stats)
  /\ UNCHANGED lib_vars
  /\ UNCHANGED <<cfg_vars, sem_vars, pc, attempt, exchanges, failures, result,
                 done_queue, stats, delays, final_outcome, completed, rerun,
                 prior>>

\* The caller runs fetch_urls of the same fetcher once more, with the same
\* output path and a list of URLs of its choice.
RunAgain ==
  /\ opc = "returned"
  /\ ~rerun
  /\ rerun' = TRUE
  /\ prior' = Len(sink)
  /\ urls' \in UrlLists
  /\ pc' = [i \in 1..Len(urls') |-> "new"]
  /\ attempt' = [i \in 1..Len(urls') |-> 0]
  /\ exchanges' = [i \in 1..Len(urls') |-> 0]
  /\ failures' = [i \in 1..Len(urls') |-> 0]
  /\ delays' = [i \in 1..Len(urls') |-> <<>>]
  /\ result' = <<>>
  /\ final_outcome' = <<>>
  /\ done_queue' = <<>>
  /\ completed' = <<>>
  /\ stats' = [total |-> Len(urls'), successful |-> 0, failed |-> 0]
  /\ opc' = "start"
  /\ ret' = NoReturn
  /\ UNCHANGED lib_vars
  /\ UNCHANGED <<max_concurrent, max_retries, sem_vars, file_vars>>

\* The task that runs fetch_urls is cancelled (by its caller, or by a
\* deadline such as asyncio.wait_for) while it drains as_completed:
\* CancelledError is raised out of "await future", which no handler of
\* fetch_urls catches; the file is closed on the way out and the fetch tasks
\* are left as they are.
Cancel ==
  /\ opc = "draining"
  /\ ~LoopExhausted
  /\ opc' = "raised"
  /\ ret' = Raises("CancelledError")
  /\ sink' = sink \o buffer
  /\ buffer' = <<>>
  /\ UNCHANGED lib_vars
  /\ UNCHANGED <<cfg_vars, sem_vars, pc, attempt, exchanges, failures, result,
                 done_queue, stats, delays, final_outcome, completed, rerun,
                 prior>>

Next ==
  \/ ReadUrls
  \/ ReadFails
  \/ OpenSink
  \/ OpenFails
  \/ \E i \in Tasks : TaskStart(i)
  \/ \E i \in Tasks : \E o \in Outcomes : ExchangeEnd(i, o)
  \/ \E i \in Tasks : SleepDone(i)
  \/ ProcessResult
  \/ Return

Spec == Init /\ [][Next]_vars

\* The event loop runs every step that is ready, every exchange resolves and
\* every sleep ends.
FairSpec == Spec /\ WF_vars(Next)

\* Two consecutive runs on the same output path.
NextRerun == Next \/ RunAgain

SpecRerun == Init /\ [][NextRerun]_vars

\* A run that may be cancelled.
NextCancel == Next \/ Cancel

SpecCancel == Init /\ [][NextCancel]_vars

\* A run of a fetcher built with any max_retries.
SpecAnyRetries == InitAnyRetries /\ [][Next]_vars

\* ======================================================================
\* src/src/1/lru_cache.py
\* ======================================================================
\* The calls of the decorated function: positional arguments, and keyword
\* arguments as the (name, value) pairs in the order the caller wrote them.
KwNames == <<"c", "d">>
CallInputs ==
  { [args |-> <<1, 2>>, kwargs |-> <<>>],
    [args |-> <<3, 4>>, kwargs |-> <<>>],
    [args |-> <<5, 6>>, kwargs |-> <<>>],
    [args |-> <<1, 2>>, kwargs |-> << <<"c", 3>>, <<"d", 4>> >>],
    [args |-> <<1, 2>>, kwargs |-> << <<"d", 4>>, <<"c", 3>> >>] }

\* The ways the decorator is applied: bare, or with maxsize=n.
Decorations ==
  {[form |-> "bare", n |-> 0]} \cup [form : {"maxsize"}, n : 0..MaxSize]

\* maxsize = kwargs.get("maxsize", None)
MaxsizeOf(d) == IF d.form = "bare" THEN Nothing ELSE Some(d.n)

\* The place of a keyword name in the order of Python's strings.
NameRank(name) == CHOOSE k \in 1..Len(KwNames) : KwNames[k] = name

\* sorted(kwargs.items()): insertion of each pair at its place.
RECURSIVE InsertSorted(_, _)
InsertSorted(item, s) ==
  IF s = <<>> THEN <<item>>
  ELSE IF NameRank(item[1]) <= NameRank(s[1][1]) THEN <<item>> \o s
  ELSE <<s[1]>> \o InsertSorted(item, Tail(s))

RECURSIVE sorted(_)
sorted(items) ==
  IF items = <<>> THEN <<>>
  ELSE InsertSorted(items[1], sorted(Tail(items)))

\* key = (args, tuple(sorted(kwargs.items())))
KeyOf(args, kwargs) == <<args, sorted(kwargs)>>

\* key in cache, and cache[key]
InCacheNever(c, key) == FALSE
InCache(c, key) == \E k \in 1..Len(c) : c[k].key = key
Lookup(c, key) == (CHOOSE k \in 1..Len(c) : c[k].key = key)
Stored(c, key) == c[Lookup(c, key)].value

\* A hit: cache.pop(key) and cache[key] = result put the entry last.
OnHitInPlace(c, key) == c
OnHit(c, key) ==
  Append(SelectSeq(c, LAMBDA e : e.key # key), [key |-> key, value |-> Stored(c, key)])

\* cache.popitem(last=False) removes the oldest entry.
PopItem(c) == Tail(c)

\* A miss: cache[key] = result, then the eviction when the cache is too big.
OnMiss(c, key, value, ms) ==
  LET c1 == Append(c, [key |-> key, value |-> value])
  IN IF ms # Nothing /\ Len(c1) > ms[1] THEN PopItem(c1) ELSE c1

\* What a call passes, whatever the order of its keyword arguments: the
\* positional arguments and the set of the (name, value) pairs.
Passed(args, kwargs) == <<args, {kwargs[k] : k \in 1..Len(kwargs)}>>
PassedOf(key) == Passed(key[1], key[2])

\* The wrapped function: the nth call returns n (the Mock of the self-test).
func(n) == n

\* The calls of the self-test, lines 78 to 84.
SelfTest ==
  << <<1, 2>>, <<1, 2>>, <<3, 4>>, <<3, 4>>, <<5, 6>>, <<5, 6>>, <<1, 2>> >>

InitLru ==
  /\ FetcherIdle /\ AsgiIdle /\ MetaIdle /\ GeomIdle /\ SearchIdle
  /\ SimpleIdle
  /\ \E d \in Decorations : maxsize = MaxsizeOf(d)
  /\ cache = <<>>
  /\ call_count = 0
  /\ returned = Nothing
  /\ wrapper_calls = 0
  /\ misses = 0
  /\ recency = <<>>
  /\ followed = TRUE

\* One call of the wrapper.
Call(inp) ==
  /\ wrapper_calls < MaxCalls
  /\ LET key == KeyOf(inp.args, inp.kwargs)
     IN /\ IF InCache(cache, key)
             THEN /\ returned' = Some(Stored(cache, key))
                  /\ cache' = OnHit(cache, key)
                  /\ UNCHANGED call_count
             ELSE /\ call_count' = call_count + 1
                  /\ returned' = Some(func(call_count + 1))
                  /\ cache' = OnMiss(cache, key, func(call_count + 1), maxsize)
  /\ LET use == Passed(inp.args, inp.kwargs)
     IN /\ misses' = IF \E k \in 1..Len(cache) : PassedOf(cache[k].key) = use
                       THEN misses ELSE misses + 1
        /\ recency' = Append(SelectSeq(recency, LAMBDA q : q # use), use)
  /\ wrapper_calls' = wrapper_calls + 1
  /\ followed' = (/\ followed
                  /\ wrapper_calls < Len(SelfTest)
                  /\ inp.kwargs = <<>>
                  /\ inp.args = SelfTest[wrapper_calls + 1])
  /\ UNCHANGED maxsize
  /\ UNCHANGED <<fetcher_vars, asgi_vars, meta_vars, geom_vars, search_vars,
                 simple_vars>>

NextLru == \E inp \in CallInputs : Call(inp)

SpecLru == InitLru /\ [][NextLru]_vars

\* ======================================================================
\* src/src/8/asgi.py, src/src/8/common.py
\* ======================================================================
\* A path is the tuple of its characters: a slash, an upper-case letter, a
\* lower-case letter and a digit stand for the characters a path can hold.
Chars == {"/", "U", "s", "1"}
Letters == {"U", "s"}
Paths == UNION {[1..k -> Chars] : k \in 0..MaxPathLen}
Scopes == [type : {"http", "websocket"}, method : {"GET", "POST"}, path : Paths]

\* str.strip("/")
RECURSIVE lstrip(_)
lstrip(p) == IF p # <<>> /\ Head(p) = "/" THEN lstrip(Tail(p)) ELSE p

RECURSIVE rstrip(_)
rstrip(p) ==
  IF p # <<>> /\ p[Len(p)] = "/" THEN rstrip(SubSeq(p, 1, Len(p) - 1)) ELSE p

stripLeadingOnly(p) == lstrip(p)
strip(p) == rstrip(lstrip(p))

\* str.isalpha(): not empty and every character a letter
isalpha(p) == p # <<>> /\ \A k \in 1..Len(p) : p[k] \in Letters

\* str.upper()
upper_char(c) == IF c = "s" THEN "S" ELSE c
upper(p) == [k \in 1..Len(p) |-> upper_char(p[k])]

\* A dict is the tuple of its (key, value) items in insertion order; a JSON
\* value is a dict or null.
Dict(items) == [t |-> "dict", items |-> items]
Null == [t |-> "null", items |-> <<>>]

\* json.dumps of such a value.
RECURSIVE dumps_items(_)
dumps_items(items) ==
  IF items = <<>> THEN ""
  ELSE "\"" \o items[1][1] \o "\": \"" \o items[1][2] \o "\""
         \o (IF Len(items) > 1 THEN ", " ELSE "") \o dumps_items(Tail(items))

dumps(v) == IF v.t = "null" THEN "null" ELSE "{" \o dumps_items(v.items) \o "}"

\* create_error_response(message, details)
create_error_response(message, details) ==
  IF details # ""
    THEN Dict(<< <<"error", message>>, <<"details", details>> >>)
    ELSE Dict(<< <<"error", message>> >>)

\* create_asgi_response(status, body), without extra headers
DefaultHeaders ==
  << <<"content-type", "application/json">>,
     <<"access-control-allow-origin", "*">> >>

create_asgi_responseBodyFirst(status, body) ==
  << [type |-> "http.response.body", body |-> dumps(body)],
     [type |-> "http.response.start", status |-> status,
      headers |-> DefaultHeaders] >>

create_asgi_response(status, body) ==
  << [type |-> "http.response.start", status |-> status,
      headers |-> DefaultHeaders],
     [type |-> "http.response.body", body |-> dumps(body)] >>

\* extract_currency_from_path(path): (currency, error_response)
RequiredError ==
  Dict(<< <<"error", "Currency code is required">>,
          <<"example", "Use /USD or /EUR">> >>)
InvalidError ==
  Dict(<< <<"error", "Invalid currency code">>,
          <<"details", "Currency code must be 3 letters (e.g., USD, EUR)">> >>)

extract_currency_from_path(path) ==
  LET p == strip(path)
  IN IF p = <<>> THEN <<Nothing, Some(RequiredError)>>
     ELSE IF ~isalpha(p) \/ Len(p) # 3 THEN <<Nothing, Some(InvalidError)>>
     ELSE <<Some(upper(p)), Nothing>>

\* How the exchange with the upstream API can end: a response with a status
\* and a body, or an exception of the client with its message.
RatesUSD == Dict(<< <<"base", "USD">>, <<"date", "2024-01-01">> >>)
UpstreamOutcomes ==
  { [kind |-> "response", status |-> 200, text |-> "rates", message |-> ""],
    [kind |-> "response", status |-> 200, text |-> "null", message |-> ""],
    [kind |-> "response", status |-> 200, text |-> "<html>",
     message |-> "Attempt to decode JSON with unexpected mimetype"],
    [kind |-> "response", status |-> 404, text |-> "null", message |-> ""],
    [kind |-> "response", status |-> 500, text |-> "<html>", message |-> ""],
    [kind |-> "client_error", status |-> 0, text |-> "",
     message |-> "Cannot connect to host"],
    [kind |-> "timeout", status |-> 0, text |-> "", message |-> ""] }

\* response.json(): the parsed body, or nothing when it is not JSON
response_json(text) ==
  IF text = "rates" THEN Some(RatesUSD)
  ELSE IF text = "null" THEN Some(Null)
  ELSE Nothing

\* fetch_exchange_rates_async: the data it returns, or the exception it
\* raises, named by its str().
Returned_(data) == [raised |-> FALSE, data |-> data, message |-> ""]
Raised_(message) == [raised |-> TRUE, data |-> Null, message |-> message]

fetch_exchange_rates_asyncAnyStatus(o) ==
  IF o.kind # "response" THEN Raised_(o.message)
  ELSE IF response_json(o.text) # Nothing
    THEN Returned_(response_json(o.text)[1])
  ELSE Raised_(o.message)

fetch_exchange_rates_async(o) ==
  IF o.kind # "response" THEN Raised_(o.message)
  ELSE IF o.status = 200
    THEN IF response_json(o.text) # Nothing
           THEN Returned_(response_json(o.text)[1])
           ELSE Raised_(o.message)
  ELSE Raised_("API returned status " \o ToString(o.status))

\* "except Exception" catches whatever fetch_exchange_rates_async raises.
Caught(f) == TRUE

\* The branch asgi_app takes before its first await.
RoutePathFirst(sc) ==
  IF sc.type # "http" THEN "ignore"
  ELSE IF extract_currency_from_path(sc.path)[2] # Nothing THEN "bad_path"
  ELSE IF sc.method # "GET" THEN "bad_method"
  ELSE "fetch"

Route(sc) ==
  IF sc.type # "http" THEN "ignore"
  ELSE IF sc.method # "GET" THEN "bad_method"
  ELSE IF extract_currency_from_path(sc.path)[2] # Nothing THEN "bad_path"
  ELSE "fetch"

MethodError ==
  create_error_response("Method not allowed", "Only GET method is supported")

InitAsgi ==
  /\ FetcherIdle /\ LruIdle /\ MetaIdle /\ GeomIdle /\ SearchIdle
  /\ SimpleIdle
  /\ scope \in Scopes
  /\ apc = "start"
  /\ pending = <<>>
  /\ sent = <<>>
  /\ fetch_calls = 0
  /\ upstream = Nothing

\* asgi_app runs up to its first await: it returns, builds an error response,
\* or calls fetch_exchange_rates_async.
AppStart ==
  /\ apc = "start"
  /\ LET r == Route(scope)
     IN /\ apc' = CASE r = "ignore" -> "returned"
                     [] r = "fetch" -> "fetching"
                     [] OTHER -> "sending"
        /\ pending' = CASE r = "bad_method" -> create_asgi_response(405, MethodError)
                         [] r = "bad_path" ->
                              create_asgi_response(
                                400, extract_currency_from_path(scope.path)[2][1])
                         [] OTHER -> <<>>
        /\ fetch_calls' = IF r = "fetch" THEN fetch_calls + 1 ELSE fetch_calls
  /\ UNCHANGED <<scope, sent, upstream>>
  /\ UNCHANGED <<fetcher_vars, lru_vars, meta_vars, geom_vars, search_vars,
                 simple_vars>>

\* The upstream exchange ends with outcome o: the 200 response is built from
\* the data, or the exception is caught and the 500 response is built.
FetchEnd(o) ==
  /\ apc = "fetching"
  /\ upstream' = Some(o)
  /\ LET f == fetch_exchange_rates_async(o)
     IN IF f.raised /\ ~Caught(f)
          THEN /\ apc' = "raised"
               /\ pending' = <<>>
          ELSE /\ apc' = "sending"
               /\ pending' =
                    IF f.raised
                      THEN create_asgi_response(
                             500, create_error_response(
                                    "Failed to fetch exchange rates", f.message))
                      ELSE create_asgi_response(200, f.data)
  /\ UNCHANGED <<scope, sent, fetch_calls>>
  /\ UNCHANGED <<fetcher_vars, lru_vars, meta_vars, geom_vars, search_vars,
                 simple_vars>>

\* await send(message), for the next message of the response; after the last
\* one asgi_app returns.
Send ==
  /\ apc = "sending"
  /\ sent' = Append(sent, Head(pending))
  /\ pending' = Tail(pending)
  /\ apc' = IF Tail(pending) = <<>> THEN "returned" ELSE "sending"
  /\ UNCHANGED <<scope, fetch_calls, upstream>>
  /\ UNCHANGED <<fetcher_vars, lru_vars, meta_vars, geom_vars, search_vars,
                 simple_vars>>

NextAsgi ==
  \/ AppStart
  \/ \E o \in UpstreamOutcomes : FetchEnd(o)
  \/ Send

SpecAsgi == InitAsgi /\ [][NextAsgi]_vars

\* ======================================================================
\* src/src/2/singleton_meta.py
\* ======================================================================
\* The classes whose metaclass is SingletonMeta: Calculator, and a second
\* class of the same shape.
Classes == {"Calculator", "Calculator2"}
Methods == {"add", "multiply"}

\* cls in cls._instances
HasInstanceNever(inst, cls) == FALSE
HasInstance(inst, cls) == cls \in DOMAIN inst

\* The entry add(5, 3) and multiply(4, 2) append to the history.
Entry(method) ==
  IF method = "add"
    THEN ToString(5) \o " + " \o ToString(3) \o " = " \o ToString(5 + 3)
    ELSE ToString(4) \o " * " \o ToString(2) \o " = " \o ToString(4 * 2)

InitMeta ==
  /\ FetcherIdle /\ LruIdle /\ AsgiIdle /\ GeomIdle /\ SearchIdle
  /\ SimpleIdle
  /\ instances = <<>>
  /\ history = <<>>
  /\ init_runs = [c \in Classes |-> 0]
  /\ refs = <<>>
  /\ op_calls = [c \in Classes |-> 0]

\* cls(): SingletonMeta.__call__ makes and initialises the object of the class
\* when the class has none, and returns the object of the class.
Construct(cls) ==
  /\ Len(refs) < MaxRefs
  /\ IF HasInstance(instances, cls)
       THEN UNCHANGED <<instances, history, init_runs>>
       ELSE LET obj == Len(history) + 1
            IN /\ history' = Append(history, <<>>)
               /\ init_runs' = [init_runs EXCEPT ![cls] = @ + 1]
               /\ instances' = [c \in DOMAIN instances \cup {cls} |->
                                  IF c = cls THEN obj ELSE instances[c]]
  /\ refs' = Append(refs, [cls |-> cls, obj |-> instances'[cls]])
  /\ UNCHANGED op_calls
  /\ UNCHANGED <<fetcher_vars, lru_vars, asgi_vars, geom_vars, search_vars,
                 simple_vars>>

\* add or multiply, called through the kth reference.
Operate(k, method) ==
  /\ op_calls[refs[k].cls] < MaxOps
  /\ history' = [history EXCEPT ![refs[k].obj] = Append(@, Entry(method))]
  /\ op_calls' = [op_calls EXCEPT ![refs[k].cls] = @ + 1]
  /\ UNCHANGED <<instances, init_runs, refs>>
  /\ UNCHANGED <<fetcher_vars, lru_vars, asgi_vars, geom_vars, search_vars,
                 simple_vars>>

NextMeta ==
  \/ \E cls \in Classes : Construct(cls)
  \/ \E k \in 1..Len(refs) : \E method \in Methods : Operate(k, method)

SpecMeta == InitMeta /\ [][NextMeta]_vars

\* ======================================================================
\* src/src/2/singleton_new.py
\* ======================================================================
AreaKinds == {"circle_area", "triangle_area", "rectangle_area"}

\* "if not GeometryCalculator._initialized"
NeedsInitAlways(initialized) == TRUE
NeedsInit(initialized) == ~initialized

InitGeom ==
  /\ FetcherIdle /\ LruIdle /\ AsgiIdle /\ MetaIdle /\ SearchIdle
  /\ SimpleIdle
  /\ g_instance = Nothing
  /\ g_initialized = FALSE
  /\ g_objects = 0
  /\ calculation_count = <<>>
  /\ g_refs = <<>>
  /\ area_calls = <<>>

\* GeometryCalculator(): __new__ makes the object when there is none, and
\* __init__ runs on the object __new__ returned.
GeometryCalculator ==
  /\ Len(g_refs) < MaxRefs
  /\ LET made == g_instance = Nothing
         obj  == IF made THEN g_objects + 1 ELSE g_instance[1]
     IN /\ g_instance' = Some(obj)
        /\ g_objects' = IF made THEN g_objects + 1 ELSE g_objects
        /\ IF NeedsInit(g_initialized)
             THEN /\ calculation_count' =
                       [o \in DOMAIN calculation_count \cup {obj} |->
                          IF o = obj THEN 0 ELSE calculation_count[o]]
                  /\ g_initialized' = TRUE
             ELSE UNCHANGED <<calculation_count, g_initialized>>
        /\ g_refs' = Append(g_refs, obj)
  /\ UNCHANGED area_calls
  /\ UNCHANGED <<fetcher_vars, lru_vars, asgi_vars, meta_vars, search_vars,
                 simple_vars>>

\* circle_area, triangle_area or rectangle_area, called through the kth
\* reference.
Area(k, kind) ==
  /\ Len(area_calls) < MaxOps
  /\ g_refs[k] \in DOMAIN calculation_count
  /\ calculation_count' = [calculation_count EXCEPT ![g_refs[k]] = @ + 1]
  /\ area_calls' = Append(area_calls, [kind |-> kind, ref |-> k])
  /\ UNCHANGED <<g_instance, g_initialized, g_objects, g_refs>>
  /\ UNCHANGED <<fetcher_vars, lru_vars, asgi_vars, meta_vars, search_vars,
                 simple_vars>>

NextGeom ==
  \/ GeometryCalculator
  \/ \E k \in 1..Len(g_refs) : \E kind \in AreaKinds : Area(k, kind)

SpecGeom == InitGeom /\ [][NextGeom]_vars

\* ======================================================================
\* src/src/4/search_at_list.py
\* ======================================================================
\* The sorted lists of at most MaxLen integers of 1..MaxValue, and the numbers
\* looked for (one below and one above the values included).
IsSorted(a) == \A k \in 1..Len(a) - 1 : a[k] <= a[k + 1]
SortedLists == {a \in SeqsUpTo(1..MaxValue, MaxLen) : IsSorted(a)}
Numbers == 0..MaxValue + 1

\* array[i], for a Python index i
At(a, i) == a[i + 1]

\* "array[mid] < number": the search goes on to the right of mid.
GoesRightSwapped(v, n) == v > n
GoesRight(v, n) == v < n

InitSearch ==
  /\ FetcherIdle /\ LruIdle /\ AsgiIdle /\ MetaIdle /\ GeomIdle
  /\ SimpleIdle
  /\ array \in SortedLists
  /\ number \in Numbers
  /\ left = 0
  /\ right = Len(array) - 1
  /\ mid = Nothing
  /\ spc = "loop"
  /\ found = Nothing

\* One iteration of the while loop.
Iterate ==
  /\ spc = "loop"
  /\ left <= right
  /\ LET m == (left + right) \div 2
     IN /\ mid' = Some(m)
        /\ IF At(array, m) = number
             THEN /\ found' = Some(TRUE)
                  /\ spc' = "done"
                  /\ UNCHANGED <<left, right>>
             ELSE IF GoesRight(At(array, m), number)
               THEN /\ left' = m + 1
                    /\ UNCHANGED <<right, found, spc>>
               ELSE /\ right' = m - 1
                    /\ UNCHANGED <<left, found, spc>>
  /\ UNCHANGED <<array, number>>
  /\ UNCHANGED <<fetcher_vars, lru_vars, asgi_vars, meta_vars, geom_vars,
                 simple_vars>>

\* The loop condition fails: return False.
Exit ==
  /\ spc = "loop"
  /\ left > right
  /\ found' = Some(FALSE)
  /\ spc' = "done"
  /\ UNCHANGED <<array, number, left, right, mid>>
  /\ UNCHANGED <<fetcher_vars, lru_vars, asgi_vars, meta_vars, geom_vars,
                 simple_vars>>

NextSearch == Iterate \/ Exit

SpecSearch == InitSearch /\ [][NextSearch]_vars

\* The call runs on: the interpreter executes the next statement.
FairSearch == SpecSearch /\ WF_vars(NextSearch)

\* ======================================================================
\* src/src/5/async_http.py
\* ======================================================================
\* asyncio.Semaphore(5)
SimpleLimit == 5

\* The input lists, up to the renaming of the URLs: every list of at most
\* MaxMixedUrls entries, and the longer lists that alternate the two URLs.
Alternating(n) == [i \in 1..n |-> IF i % 2 = 1 THEN "http://a" ELSE "http://b"]
SimpleUrlLists ==
  {s \in SeqsUpTo(URLS, MaxMixedUrls) : s # <<>> => s[1] = "http://a"}
    \cup {Alternating(n) : n \in MaxMixedUrls + 1..MaxSimpleUrls}
SimpleTasks == 1..Len(s_urls)

\* How a request can end: a response with its status, or an exception.
SimpleOutcomes ==
  [kind : {"response"}, status : {200, 404}]
    \cup [kind : {"connector_error", "exception"}, status : {0}]

\* The except clauses of fetch_single_url: ClientConnectorError,
\* ServerTimeoutError, ClientError, and Exception for the rest.
HandledClientErrorsOnly(o) == o.kind = "connector_error"
Handled(o) == o.kind # "response"

\* What fetch_single_url returns.
SingleResult(url, o) ==
  [url |-> url, status_code |-> IF o.kind = "response" THEN o.status ELSE 0]

\* json.dumps(result) + "\n", as the line without its end.
ResultLine(r) ==
  "{\"url\": \"" \o r.url \o "\", \"status_code\": "
    \o ToString(r.status_code) \o "}"

\* {result["url"]: result["status_code"] for result in results}: a later
\* result of the same URL replaces an earlier one.
ResultDict(results) ==
  [u \in {results[k].url : k \in 1..Len(results)} |->
     LET last == CHOOSE k \in 1..Len(results) :
                   /\ results[k].url = u
                   /\ \A m \in k + 1..Len(results) : results[m].url # u
     IN results[last].status_code]

InitSimple ==
  /\ FetcherIdle /\ LruIdle /\ AsgiIdle /\ MetaIdle /\ GeomIdle /\ SearchIdle
  /\ s_urls \in SimpleUrlLists
  /\ s_value = SimpleLimit
  /\ s_waiters = <<>>
  /\ s_pc = [i \in 1..Len(s_urls) |-> "new"]
  /\ s_results = <<>>
  /\ s_outcomes = <<>>
  /\ s_opc = "gathering"
  /\ s_file = <<>>
  /\ s_ret = Nothing

\* The tasks of gather start in the order of the list: the next one reaches
\* "async with semaphore" and takes a slot, or queues up.
SimpleStart ==
  /\ s_opc = "gathering"
  /\ \E i \in SimpleTasks :
       /\ s_pc[i] = "new"
       /\ \A j \in 1..i - 1 : s_pc[j] # "new"
       /\ IF SemLocked(s_value, s_waiters)
            THEN /\ s_waiters' = Append(s_waiters, i)
                 /\ s_pc' = [s_pc EXCEPT ![i] = "waiting"]
                 /\ UNCHANGED s_value
            ELSE /\ s_value' = s_value - 1
                 /\ s_pc' = [s_pc EXCEPT ![i] = "inflight"]
                 /\ UNCHANGED s_waiters
  /\ UNCHANGED <<s_urls, s_results, s_outcomes, s_opc, s_file, s_ret>>
  /\ UNCHANGED <<fetcher_vars, lru_vars, asgi_vars, meta_vars, geom_vars,
                 search_vars>>

\* The request of task i ends with outcome o: the task returns its result (or
\* raises what no except clause handles, which gather raises in fetch_urls),
\* and its slot goes to the first waiter.
SimpleEnd(i, o) ==
  /\ s_opc = "gathering"
  /\ s_pc[i] = "inflight"
  /\ LET ok == o.kind = "response" \/ Handled(o)
     IN /\ s_pc' = [j \in SimpleTasks |->
                      IF j = i THEN (IF ok THEN "done" ELSE "raised")
                      ELSE IF WakesNext(s_waiters) /\ j = Head(s_waiters)
                        THEN "inflight"
                      ELSE s_pc[j]]
        /\ IF WakesNext(s_waiters)
             THEN /\ s_waiters' = Tail(s_waiters)
                  /\ UNCHANGED s_value
             ELSE /\ s_value' = s_value + 1
                  /\ UNCHANGED s_waiters
        /\ s_results' = IF ok THEN s_results @@ (i :> SingleResult(s_urls[i], o))
                        ELSE s_results
        /\ s_outcomes' = s_outcomes @@ (i :> o)
        /\ s_opc' = IF ok THEN s_opc ELSE "raised"
  /\ UNCHANGED <<s_urls, s_file, s_ret>>
  /\ UNCHANGED <<fetcher_vars, lru_vars, asgi_vars, meta_vars, geom_vars,
                 search_vars>>

\* gather returns the results in the order of the list: fetch_urls writes the
\* file, one line per result, and returns the dictionary.
SimpleFinish ==
  /\ s_opc = "gathering"
  /\ \A i \in SimpleTasks : s_pc[i] = "done"
  /\ LET results == [k \in 1..Len(s_urls) |-> s_results[k]]
     IN /\ s_file' = [k \in 1..Len(results) |-> ResultLine(results[k])]
        /\ s_ret' = Some(ResultDict(results))
  /\ s_opc' = "returned"
  /\ UNCHANGED <<s_urls, s_value, s_waiters, s_pc, s_results, s_outcomes>>
  /\ UNCHANGED <<fetcher_vars, lru_vars, asgi_vars, meta_vars, geom_vars,
                 search_vars>>

\* The results file cannot be opened: open() raises out of fetch_urls.
SimpleOpenFails ==
  /\ s_opc = "gathering"
  /\ \A i \in SimpleTasks : s_pc[i] = "done"
  /\ s_opc' = "open_failed"
  /\ UNCHANGED <<s_urls, s_value, s_waiters, s_pc, s_results, s_outcomes,
                 s_file, s_ret>>
  /\ UNCHANGED <<fetcher_vars, lru_vars, asgi_vars, meta_vars, geom_vars,
                 search_vars>>

NextSimple ==
  \/ SimpleStart
  \/ \E i \in SimpleTasks : \E o \in SimpleOutcomes : SimpleEnd(i, o)
  \/ SimpleFinish
  \/ SimpleOpenFails

SpecSimple == InitSimple /\ [][NextSimple]_vars

\* ------------------------------------------------------------------ claims
InFlight == {i \in Tasks : pc[i] = "inflight"}
Returned == DOMAIN result
Consumed == {i \in Tasks : pc[i] = "consumed"}
RecordsOf(u) == {k \in 1..Len(sink) : sink[k].url = u}

\* C1: at no point of a run are more than max_concurrent fetch tasks inside a
\* Transport exchange (holding a semaphore slot around session.get); with
\* max_concurrent = 1 no two exchanges overlap.
C1_ConcurrencyBound ==
  /\ Cardinality(InFlight) <= max_concurrent
  /\ Cardinality(holder) <= max_concurrent
  /\ max_concurrent = 1 => \A i, j \in InFlight : i = j

\* A task is in its exchange while another one queues for the only slot.
C1_Witness ==
  /\ max_concurrent = 1
  /\ \E i, j \in Tasks : pc[i] = "inflight" /\ pc[j] = "waiting"

\* C2: one fetch task performs at most max_retries + 1 Transport exchanges.
C2_ExchangeBudget == \A i \in Tasks : exchanges[i] <= max_retries + 1

\* A task has used up a budget of three exchanges and has returned.
C2_Witness ==
  \E i \in Returned : max_retries = 2 /\ exchanges[i] = max_retries + 1

\* C3: stats.total is the number of input URLs and never changes; successful +
\* failed never exceeds it, grows by exactly one (in exactly one of the two
\* counters) with every result fetch_urls takes, and equals total once
\* fetch_urls has returned.
C3_StatsInv ==
  /\ stats.total = Len(urls)
  /\ stats.successful + stats.failed <= stats.total
  /\ stats.successful + stats.failed = Cardinality(Consumed)
  /\ opc = "returned" => stats.successful + stats.failed = stats.total

C3_StatsStep ==
  /\ stats'.total = stats.total
  /\ IF Len(done_queue') < Len(done_queue)
       THEN \/ /\ stats'.successful = stats.successful + 1
               /\ stats'.failed = stats.failed
            \/ /\ stats'.successful = stats.successful
               /\ stats'.failed = stats.failed + 1
       ELSE stats' = stats

\* C3: the statistics invariant holds in every state and every step counts
\* one taken result in exactly one counter.
C3_Statistics == [](C3_StatsInv) /\ [][C3_StatsStep]_vars

\* A run of two URLs has returned with one success and one failure counted.
C3_Witness ==
  opc = "returned" /\ stats.successful = 1 /\ stats.failed = 1

\* C4: after a completed run, every URL whose fetch task ended in Success has
\* exactly one record in the sink, and the record's content is the parsed
\* value of that Success.
C4_OneRecordPerSuccess ==
  opc = "returned" =>
    \A i \in Tasks :
      result[i].success =>
        /\ Cardinality(RecordsOf(urls[i])) = 1
        /\ \A k \in RecordsOf(urls[i]) :
             json_loads(sink[k].content).value = result[i].content

\* C5: a FetchResult with success = false never produces a sink record: the
\* sink holds as many records as stats.successful counts, and taking a failed
\* result changes stats.failed alone.
C5_SinkInv ==
  /\ Len(sink) = stats.successful
  /\ Len(sink) <= Cardinality({i \in Consumed : result[i].success})

C5_FailedStep ==
  (done_queue # <<>> /\ done_queue' = Tail(done_queue)
     /\ ~result[Head(done_queue)].success)
    => /\ sink' = sink
       /\ stats'.failed = stats.failed + 1
       /\ stats'.successful = stats.successful

\* C5: the sink holds exactly the counted successes in every state and no
\* step that takes a failed result writes a record.
C5_FailuresNotWritten == [](C5_SinkInv) /\ [][C5_FailedStep]_vars

\* A failed result and a successful one have been taken; one record is written.
C5_Witness ==
  /\ \E i \in Consumed : ~result[i].success
  /\ \E i \in Consumed : result[i].success
  /\ Len(sink) = 1
  /\ stats.failed = 1

\* C6: every FetchResult has content and no error when success is true, and an
\* error and no content when success is false.
C6_ResultShape ==
  \A i \in Returned :
    /\ result[i].success => result[i].content # None /\ result[i].error = None
    /\ ~result[i].success => result[i].content = None /\ result[i].error # None

\* C7: fetch_urls routes on the success flag alone: every result taken with
\* success = true has its record in the sink and is counted in
\* stats.successful, never in stats.failed, and every result taken is counted.
C7_RoutesOnSuccess ==
  /\ stats.successful = Cardinality({i \in Consumed : result[i].success})
  /\ stats.failed = Cardinality({i \in Consumed : ~result[i].success})
  /\ Len(sink) = Cardinality({i \in Consumed : result[i].success})
  /\ \A i \in Consumed : result[i].success => RecordsOf(urls[i]) # {}

\* C8: a task never holds a semaphore slot while it is in the backoff sleep:
\* the slots in use are exactly those of the tasks inside an exchange, and the
\* free ones are all the others.
C8_NoSlotInBackoff ==
  /\ \A i \in Tasks : pc[i] = "sleeping" => i \notin holder
  /\ holder = InFlight
  /\ sem_value = max_concurrent - Cardinality(InFlight)

\* With a single slot, one task sleeps in backoff while another is in its
\* exchange.
C8_Witness ==
  /\ max_concurrent = 1
  /\ \E i, j \in Tasks : pc[i] = "sleeping" /\ pc[j] = "inflight"

\* C9: a task returns success = false only on the attempt whose index is
\* max_retries, after exactly max_retries + 1 exchanges that all failed; a
\* failure of any kind on an earlier attempt is followed by the backoff sleep
\* and a further attempt, never by a return.
C9_FailInv ==
  \A i \in Returned :
    ~result[i].success =>
      /\ attempt[i] = max_retries
      /\ exchanges[i] = max_retries + 1
      /\ failures[i] = exchanges[i]

C9_RetryStep ==
  \A i \in Tasks :
    (pc[i] = "inflight" /\ failures'[i] = failures[i] + 1
       /\ attempt[i] < max_retries)
      => /\ pc'[i] = "sleeping"
         /\ i \notin DOMAIN result'

\* C9: a failed result only comes from an exhausted budget, and every earlier
\* failure is followed by a retry.
C9_FailsOnlyWhenExhausted == [](C9_FailInv) /\ [][C9_RetryStep]_vars

\* A task has failed for good after three failed exchanges.
C9_Witness ==
  \E i \in Returned :
    /\ ~result[i].success
    /\ max_retries = 2
    /\ failures[i] = 3

\* C10: a task whose first 200 response with a parseable body comes on attempt
\* k ends in Success after exactly k + 1 exchanges (k failures before it), and
\* its URL then appears once in the sink.
C10_SuccessAfterRetries ==
  \A i \in Returned :
    result[i].success =>
      /\ exchanges[i] = attempt[i] + 1
      /\ failures[i] = attempt[i]
      /\ i \in Consumed => Cardinality(RecordsOf(urls[i])) = 1

\* C11: the delay slept after failed attempt a (a < max_retries) is
\* 1 * (a + 1) seconds, so the delays of one task are 1, 2, 3, ... and strictly
\* increasing, one per failed attempt that is not the last permitted one, and
\* no delay follows the last permitted attempt.
C11_BackoffDelays ==
  \A i \in Tasks :
    /\ Len(delays[i]) <= max_retries
    /\ \A k \in 1..Len(delays[i]) :
         /\ delays[i][k] = 1 * k
         /\ k > 1 => delays[i][k - 1] < delays[i][k]
    /\ Len(delays[i]) =
         IF i \in Returned /\ ~result[i].success
           THEN failures[i] - 1 ELSE failures[i]
    /\ (i \in Returned /\ ~result[i].success) => Len(delays[i]) = max_retries

\* A task has failed for good after sleeping 1 and then 2 seconds.
C11_Witness ==
  \E i \in Returned : ~result[i].success /\ delays[i] = <<1, 2>>

\* The details the modelled exceptions carry.
Details == {"Expecting value", "Cannot connect to host", "boom"}

\* The error reason e has the form the failure kind of outcome o calls for,
\* a content-parse failure being reported under the given prefix.
ReasonFits(o, e, parse_prefix) ==
  CASE o.kind = "response" /\ o.status # 200 -> e = "HTTP " \o ToString(o.status)
    [] o.kind = "response" /\ o.status = 200 ->
         \E d \in Details : e = parse_prefix \o d
    [] o.kind = "timeout"      -> e = "Timeout"
    [] o.kind = "client_error" -> \E d \in Details : e = "Client error: " \o d
    [] OTHER                   -> \E d \in Details : e = "Unexpected error: " \o d

\* C12 as stated: the error reason of a terminal failure follows from the
\* failure kind of the last attempt and is "HTTP <code>", "Timeout",
\* "Client error: <detail>", "Invalid content: <detail>" or
\* "Unexpected error: <detail>".
C12_ReasonForms_Original ==
  \A i \in Returned :
    ~result[i].success =>
      ReasonFits(final_outcome[i], result[i].error, "Invalid content: ")

\* C12, amended: the same, with a content-parse failure reported as
\* "Invalid JSON: <detail>".
C12_ReasonForms ==
  \A i \in Returned :
    ~result[i].success =>
      /\ i \in DOMAIN final_outcome
      /\ ReasonFits(final_outcome[i], result[i].error, "Invalid JSON: ")

\* A task has failed for good on a 200 response whose body does not parse.
C12_Witness ==
  \E i \in Returned :
    /\ ~result[i].success
    /\ final_outcome[i].kind = "response"
    /\ final_outcome[i].status = 200
    /\ result[i].error = "Invalid JSON: Expecting value"

\* C13: with every step that is ready eventually run, every task that waits
\* for a slot eventually gets it, every scheduled task eventually reaches its
\* terminal result, and a run that has opened its sink eventually returns its
\* statistics.
C13_NoStarvation ==
  /\ \A i \in 1..MaxUrls :
       (i \in Tasks /\ pc[i] = "waiting") ~> (i \in Tasks /\ pc[i] = "inflight")
  /\ \A i \in 1..MaxUrls :
       (i \in Tasks /\ pc[i] = "scheduled") ~> (i \in Tasks /\ i \in Returned)
  /\ (opc = "draining") ~> (opc = "returned" /\ ret = Returns(stats))

\* A task queues for a slot for its second attempt.
C13_Witness ==
  \E i \in Tasks : pc[i] = "waiting" /\ attempt[i] = 1

\* C14: fetch_urls returns its statistics only after every input URL has
\* produced its terminal FetchResult, and every input entry yields exactly one
\* result, which is processed exactly once.
C14_OneResultPerRequest ==
  /\ (ret.kind = "returned" /\ DOMAIN ret.value # {}) =>
       /\ opc = "returned"
       /\ \A i \in Tasks : i \in Returned /\ pc[i] = "consumed"
       /\ ret.value.successful + ret.value.failed = Len(urls)
  /\ Len(completed) = Cardinality(Returned)
  /\ \A i \in Returned :
       Cardinality({k \in 1..Len(completed) : completed[k] = i}) = 1
  /\ \A i \in Tasks : (i \in Returned) = (pc[i] \in {"done", "consumed"})
  /\ completed =
       [k \in 1..Cardinality(Consumed) |-> completed[k]] \o done_queue
  /\ \A k \in 1..Cardinality(Consumed) : pc[completed[k]] = "consumed"
  /\ stats.successful + stats.failed = Cardinality(Consumed)

\* A run of two URLs has returned; the second URL finished first.
C14_Witness ==
  opc = "returned" /\ completed = <<2, 1>>

\* C15: the record of a successful result is on disk as soon as fetch_urls
\* has taken that result: nothing stays buffered between two results, and
\* fetch_urls can take a finished result whatever the other tasks are doing.
C15_IncrementalWrites ==
  /\ buffer = <<>>
  /\ Len(sink) = Cardinality({i \in Consumed : IsWritten(result[i])})
  /\ (opc = "draining" /\ done_queue # <<>>) => ENABLED ProcessResult

\* A record is on disk while another task is still in its exchange.
C15_Witness ==
  /\ opc = "draining"
  /\ Len(sink) = 1
  /\ \E j \in Tasks : pc[j] = "inflight"

\* The tasks whose records fetch_urls has written, in the order in which they
\* finished, and the lines of these records.
WrittenInOrder ==
  SelectSeq(completed,
            LAMBDA i : pc[i] = "consumed" /\ result[i].success
                         /\ result[i].content # None)
LinesInOrder ==
  [k \in 1..Len(WrittenInOrder) |->
     [url |-> urls[WrittenInOrder[k]],
      content |-> json_dumps(result[WrittenInOrder[k]].content)]]

\* C16: the records of the sink are in the order in which their fetch tasks
\* finished, not in input order.
C16_CompletionOrder == (sink \o buffer) = LinesInOrder

\* The record of the second URL precedes that of the first.
C16_Witness ==
  /\ Len(urls) = 2
  /\ urls[1] # urls[2]
  /\ Len(sink) = 2
  /\ sink[1].url = urls[2]
  /\ sink[2].url = urls[1]

\* C17: after a second run on the same output path the sink holds exactly the
\* records of the second run's successes, whatever the first run wrote.
C17_SecondRunOnly ==
  (rerun /\ opc \in {"draining", "returned"}) => sink = LinesInOrder

\* The first run left a record; the second run has returned without a success
\* and the sink is empty.
C17_Witness ==
  /\ rerun
  /\ prior >= 1
  /\ opc = "returned"
  /\ Len(urls) = 1
  /\ sink = <<>>

\* The run is over without an exception and without URLs.
EmptyRunOver == urls = <<>> /\ opc \in {"returned", "returned_empty"}

\* C18 as stated: a run without URLs returns statistics with total =
\* successful = failed = 0, performs no exchange and writes nothing.
C18_EmptyInput_Original ==
  EmptyRunOver =>
    /\ ret.kind = "returned"
    /\ "total" \in DOMAIN ret.value
    /\ ret.value.total = 0
    /\ ret.value.successful = 0
    /\ ret.value.failed = 0
    /\ sink = <<>>

\* C18, amended: without URLs fetch_urls_from_file returns the empty
\* dictionary (no counters) and never opens the sink, and fetch_urls itself
\* returns total = successful = failed = 0; neither performs an exchange nor
\* writes a record, and the only exceptions are those of the files.
C18_EmptyInput ==
  urls = <<>> =>
    /\ opc = "returned_empty" =>
         ret.kind = "returned" /\ DOMAIN ret.value = {} /\ sink = <<>>
    /\ opc = "returned" =>
         /\ ret.kind = "returned"
         /\ ret.value = [total |-> 0, successful |-> 0, failed |-> 0]
         /\ sink = <<>>
    /\ opc = "raised" => ret.error \in {"OSError", "FileNotFoundError"}
    /\ completed = <<>>
    /\ opc = "draining" => ENABLED Return

\* fetch_urls_from_file has returned the empty dictionary.
C18_Witness ==
  /\ urls = <<>>
  /\ opc = "returned_empty"
  /\ ret.kind = "returned"
  /\ DOMAIN ret.value = {}

\* The outcome is a failure of one of the five kinds.
FailureKind(o) ==
  \/ o.kind \in {"timeout", "client_error", "exception"}
  \/ o.kind = "response" /\ o.status # 200
  \/ o.kind = "response" /\ o.status = 200 /\ o.body = "<html>"

\* C19: whatever error an exchange or the content parse raises, the task
\* returns a FetchResult with success = false instead of raising; the run is
\* never aborted by it, and when it returns every URL has been counted.
C19_NoPerUrlAbort ==
  /\ \A i \in Tasks : pc[i] # "raised"
  /\ \A i \in DOMAIN final_outcome :
       /\ i \in Returned
       /\ FailureKind(final_outcome[i]) =>
            ~result[i].success /\ result[i].error # None
  /\ opc = "raised" => ret.error \in {"OSError", "FileNotFoundError"}
  /\ opc = "returned" =>
       /\ \A i \in Tasks : pc[i] = "consumed"
       /\ stats.successful + stats.failed = Len(urls)

\* One URL failed on an unexpected exception, the other was written, and the
\* run returned.
C19_Witness ==
  /\ opc = "returned"
  /\ \E i, j \in Returned :
       /\ final_outcome[i].kind = "exception"
       /\ ~result[i].success
       /\ IsWritten(result[j])
  /\ stats.successful = 1
  /\ stats.failed = 1

\* C20: a sink that cannot be opened aborts the run with an exception: no
\* statistics are returned, nothing is counted in stats.failed, and no task
\* has been scheduled, so that no exchange has started.
C20_RunLevelError ==
  /\ (opc \notin {"start", "file_start"} /\ \E i \in Tasks : pc[i] = "new") =>
       /\ opc = "raised"
       /\ ret.kind = "raised"
       /\ ret.error \in {"OSError", "FileNotFoundError"}
  /\ opc = "raised" =>
       /\ ret.kind = "raised"
       /\ DOMAIN ret.value = {}
       /\ stats.failed = 0
       /\ stats.successful = 0
       /\ \A i \in Tasks : pc[i] = "new" /\ exchanges[i] = 0
       /\ completed = <<>>
  /\ ret.kind = "raised" => opc = "raised"

\* The sink of a run of two URLs could not be opened.
C20_Witness ==
  /\ opc = "raised"
  /\ ret.error = "OSError"
  /\ Len(urls) = 2

\* C21: when a cancellation (or deadline) signal arrives during a run, every
\* fetch task that is not yet terminal is aborted, and the caller still
\* receives the statistics of the results that had completed.
Cancelled == ret.error = "CancelledError"

C21_CancelDeliversStats ==
  Cancelled =>
    /\ \A i \in Tasks : pc[i] \in {"done", "raised", "consumed", "aborted"}
    /\ ret.value = stats

\* C22: identical URLs are not deduplicated. Every occurrence of a URL has its
\* own fetch task with its own budget of max_retries + 1 exchanges; after the
\* run a URL that occurs k times has contributed k to stats.total and k to
\* successful + failed, and has one sink record per successful occurrence.
Occurrences(u) == {i \in Tasks : urls[i] = u}

C22_NoDeduplication ==
  /\ DOMAIN pc = 1..Len(urls)
  /\ \A i \in Tasks : exchanges[i] <= max_retries + 1
  /\ opc = "returned" =>
       /\ stats.total = Len(urls)
       /\ stats.successful + stats.failed = Len(urls)
       /\ \A i \in Tasks :
            Cardinality(RecordsOf(urls[i])) =
              Cardinality({j \in Occurrences(urls[i]) : result[j].success})

\* C23: a call of the wrapper whose key is in the cache returns the stored
\* result without calling the wrapped function, and every other call calls it
\* exactly once: the number of calls of the function is the number of misses.
CacheKeys == [k \in 1..Len(cache) |-> PassedOf(cache[k].key)]
LastKey == recency'[Len(recency')]
WasCached == \E k \in 1..Len(cache) : PassedOf(cache[k].key) = LastKey

C23_CallStep ==
  wrapper_calls' # wrapper_calls =>
    IF WasCached
      THEN /\ call_count' = call_count
           /\ \E k \in 1..Len(cache) :
                /\ PassedOf(cache[k].key) = LastKey
                /\ returned' = Some(cache[k].value)
      ELSE /\ call_count' = call_count + 1
           /\ returned' = Some(call_count')

C23_CallsOnlyOnMiss == [](call_count = misses) /\ [][C23_CallStep]_vars

C23_Witness ==
  /\ call_count = 2
  /\ wrapper_calls = 4
  /\ returned = Some(1)

\* C24: with maxsize=N the cache never holds more than N entries after a call
\* and holds exactly the N most recently used keys (a hit and an insertion
\* both count as a use), oldest first; without maxsize it holds every key
\* used. With maxsize=2 the seven calls of the self-test call the function
\* exactly 4 times.
MostRecent(n) ==
  IF n >= Len(recency) THEN recency
  ELSE SubSeq(recency, Len(recency) - n + 1, Len(recency))

C24_LruEviction ==
  /\ maxsize # Nothing =>
       /\ Len(cache) <= maxsize[1]
       /\ CacheKeys = MostRecent(maxsize[1])
  /\ maxsize = Nothing => CacheKeys = recency
  /\ (followed /\ wrapper_calls = Len(SelfTest) /\ maxsize = Some(2)) =>
       call_count = 4

C24_Witness ==
  /\ followed
  /\ wrapper_calls = Len(SelfTest)
  /\ maxsize = Some(2)
  /\ call_count = 4
  /\ Len(recency) = 3
  /\ Len(cache) = 2

\* The messages asgi_app has sent or is about to send, in order.
Messages == sent \o pending
Responded(status, bodies) ==
  /\ Len(Messages) = 2
  /\ Messages[1].status = status
  /\ Messages[2].body \in bodies
  /\ apc = "returned" => Len(sent) = 2

\* C25: for every http scope whose method is not GET, asgi_app responds with
\* status 405 and a body whose error is "Method not allowed", whatever the
\* path, and never calls the upstream fetch.
MethodNotAllowedBodies ==
  { "{\"error\": \"Method not allowed\"}",
    "{\"error\": \"Method not allowed\", "
      \o "\"details\": \"Only GET method is supported\"}" }

C25_MethodNotAllowed ==
  (scope.type = "http" /\ scope.method # "GET") =>
    /\ fetch_calls = 0
    /\ apc # "fetching"
    /\ apc # "start" => Responded(405, MethodNotAllowedBodies)

C25_Witness ==
  /\ scope = [type |-> "http", method |-> "POST", path |-> <<"/", "1">>]
  /\ apc = "returned"
  /\ sent[1].status = 405

\* C26: extract_currency_from_path returns (CODE, None), CODE the upper-cased
\* path, exactly when the path without its leading and trailing slashes is 3
\* letters; (None, "Currency code is required") when nothing is left of the
\* path and (None, "Invalid currency code") otherwise, so exactly one of the
\* two is None. asgi_app answers a GET with such a path with 400 and never
\* calls the upstream fetch.
AllSlashes(p) == \A k \in 1..Len(p) : p[k] = "/"
IsCore(p, i, j) ==
  LET q == SubSeq(p, i + 1, j)
  IN /\ i <= j
     /\ AllSlashes(SubSeq(p, 1, i))
     /\ AllSlashes(SubSeq(p, j + 1, Len(p)))
     /\ q # <<>> => (q[1] # "/" /\ q[Len(q)] # "/")
CoresOf(p) ==
  { SubSeq(p, c[1] + 1, c[2]) :
      c \in {d \in (0..Len(p)) \X (0..Len(p)) : IsCore(p, d[1], d[2])} }
ErrorOf(e) == e[1].items[1]

C26_CurrencyPath ==
  LET r == extract_currency_from_path(scope.path)
      core == CHOOSE q \in CoresOf(scope.path) : TRUE
      valid == Len(core) = 3 /\ \A k \in 1..3 : core[k] \in Letters
  IN /\ Cardinality(CoresOf(scope.path)) = 1
     /\ (r[1] = Nothing) # (r[2] = Nothing)
     /\ valid <=> r[1] # Nothing
     /\ valid =>
          r[1] = Some([k \in 1..3 |-> IF core[k] = "s" THEN "S" ELSE core[k]])
     /\ core = <<>> => ErrorOf(r[2]) = <<"error", "Currency code is required">>
     /\ (core # <<>> /\ ~valid) =>
          ErrorOf(r[2]) = <<"error", "Invalid currency code">>
     /\ (scope.type = "http" /\ scope.method = "GET" /\ ~valid) =>
          /\ fetch_calls = 0
          /\ apc # "fetching"
          /\ apc # "start" => Responded(400, {dumps(r[2][1])})

C26_Witness ==
  /\ scope = [type |-> "http", method |-> "GET", path |-> <<"/", "U", "1", "/">>]
  /\ apc = "returned"
  /\ sent[1].status = 400
  /\ fetch_calls = 0

\* C27: for a GET with a valid currency path, asgi_app responds with 200 and
\* the upstream data as JSON when the upstream fetch succeeds, and with 500
\* and the error "Failed to fetch exchange rates" when it raises (a non-200
\* upstream status included); no exception leaves asgi_app.
UpstreamSucceeded(o) ==
  o.kind = "response" /\ o.status = 200 /\ o.text \in {"rates", "null"}
DataBody(o) ==
  IF o.text = "null" THEN "null"
  ELSE "{\"base\": \"USD\", \"date\": \"2024-01-01\"}"
FetchFailedBodies ==
  { dumps(create_error_response("Failed to fetch exchange rates", d)) :
      d \in {o.message : o \in UpstreamOutcomes}
             \cup {"API returned status " \o ToString(o.status) :
                     o \in UpstreamOutcomes} }

C27_UpstreamResult ==
  /\ apc # "raised"
  /\ upstream # Nothing =>
       /\ fetch_calls = 1
       /\ IF UpstreamSucceeded(upstream[1])
            THEN Responded(200, {DataBody(upstream[1])})
            ELSE Responded(500, FetchFailedBodies)
  /\ (apc = "returned" /\ Route(scope) = "fetch") => upstream # Nothing

C27_Witness ==
  /\ apc = "returned"
  /\ upstream # Nothing
  /\ upstream[1].status = 404
  /\ sent[1].status = 500

\* C28: for a class using SingletonMeta every constructor call returns the
\* object the first call returned and __init__ runs for the first call only:
\* the history seen through any reference holds every add and multiply made
\* through any reference of the class, and no construction resets it;
\* distinct classes get distinct objects.
C28_Inv ==
  /\ \A k \in 1..Len(refs) : \A m \in 1..Len(refs) :
       (refs[k].cls = refs[m].cls) <=> (refs[k].obj = refs[m].obj)
  /\ \A c \in Classes : init_runs[c] <= 1
  /\ \A k \in 1..Len(refs) :
       /\ init_runs[refs[k].cls] = 1
       /\ Len(history[refs[k].obj]) = op_calls[refs[k].cls]

C28_ConstructStep ==
  Len(refs') > Len(refs) =>
    \A o \in 1..Len(history) : history'[o] = history[o]

C28_SingletonMeta == [](C28_Inv) /\ [][C28_ConstructStep]_vars

C28_Witness ==
  /\ Len(refs) = 3
  /\ refs[1].cls = "Calculator" /\ refs[2].cls = "Calculator2"
  /\ refs[3].cls = "Calculator"
  /\ Len(history[refs[3].obj]) = 2
  /\ Len(history[refs[2].obj]) = 1

\* C29: every GeometryCalculator() call returns the same object, and although
\* __init__ runs on every construction, calculation_count is initialised only
\* once: after any interleaving of constructions and area computations,
\* get_calculation_count() through any reference is the number of area
\* computations made through all references.
C29_SingletonNew ==
  /\ \A k \in 1..Len(g_refs) : g_refs[k] = g_refs[1]
  /\ \A k \in 1..Len(g_refs) :
       /\ g_refs[k] \in DOMAIN calculation_count
       /\ calculation_count[g_refs[k]] = Len(area_calls)
  /\ g_objects <= 1

C29_Witness ==
  /\ Len(g_refs) = 3
  /\ Len(area_calls) = 3
  /\ area_calls[1].ref = 1 /\ area_calls[2].ref = 2 /\ area_calls[3].ref = 1
  /\ calculation_count[g_refs[3]] = 3

\* C30: for every sorted list of integers (the empty list and lists with
\* duplicates included) and every number, search terminates and returns True
\* exactly when the number is an element of the list; the index it reads is
\* always within the bounds of the list.
C30_Inv ==
  /\ spc = "done" =>
       /\ found # Nothing
       /\ found[1] <=> \E k \in 1..Len(array) : array[k] = number
  /\ mid # Nothing => (0 <= mid[1] /\ mid[1] <= Len(array) - 1)
  /\ (spc = "loop" /\ left <= right) =>
       (0 <= left /\ right <= Len(array) - 1)

C30_Search == [](C30_Inv) /\ <>(spc = "done")

C30_Witness ==
  /\ array = <<1, 2, 2, 3>>
  /\ number = 3
  /\ spc = "done"
  /\ found = Some(TRUE)
  /\ mid = Some(3)

ResponseTypes == <<"http.response.start", "http.response.body">>
SentTypes == [k \in 1..Len(sent) |-> sent[k].type]

C33_TwoMessages ==
  /\ Len(sent) <= 2
  /\ SentTypes = SubSeq(ResponseTypes, 1, Len(sent))
  /\ scope.type # "http" => (sent = <<>> /\ pending = <<>>)
  /\ apc = "returned" =>
       /\ pending = <<>>
       /\ Len(sent) = (IF scope.type = "http" THEN 2 ELSE 0)
  /\ (scope.type = "http" /\ apc = "sending") => Len(sent) + Len(pending) = 2

C33_Witness ==
  /\ scope.type = "http" /\ scope.method = "GET"
  /\ upstream # Nothing
  /\ upstream[1].kind = "timeout"
  /\ apc = "returned"
  /\ SentTypes = ResponseTypes


\* The status a request that ended with outcome o stands for.
StatusOf(o) == IF o.kind = "response" THEN o.status ELSE 0
LastEntry(u) ==
  CHOOSE i \in SimpleTasks :
    s_urls[i] = u /\ \A j \in i + 1..Len(s_urls) : s_urls[j] # u
SimpleInFlight == {i \in SimpleTasks : s_pc[i] = "inflight"}

\* C31: the fetch_urls of src/5 never raises for a per-URL error: it returns
\* a dict with a key for every input URL whose value is the status of the
\* response, or 0 when the request raised any exception; at most 5 requests
\* are in flight at any time (and a queued request always has one in flight
\* or about to start before it); the results file is written only after all
\* requests have finished, one JSON line per input entry in input order.
C31_SimpleFetch ==
  /\ s_opc # "raised"
  /\ Cardinality(SimpleInFlight) <= SimpleLimit
  /\ (\E i \in SimpleTasks : s_pc[i] = "waiting")
       => \E j \in SimpleTasks : s_pc[j] \in {"inflight", "new"}
  /\ s_file # <<>> => \A i \in SimpleTasks : s_pc[i] = "done"
  /\ s_opc = "returned" =>
       /\ s_ret # Nothing
       /\ DOMAIN s_ret[1] = {s_urls[i] : i \in SimpleTasks}
       /\ \A i \in SimpleTasks :
            s_ret[1][s_urls[i]] = StatusOf(s_outcomes[LastEntry(s_urls[i])])
       /\ Len(s_file) = Len(s_urls)
       /\ \A i \in SimpleTasks :
            s_file[i] = "{\"url\": \"" \o s_urls[i] \o "\", \"status_code\": "
                          \o ToString(StatusOf(s_outcomes[i])) \o "}"
C31_Witness ==
  /\ s_opc = "returned"
  /\ Len(s_urls) > SimpleLimit
  /\ \E i \in SimpleTasks : s_outcomes[i].kind = "exception"
  /\ \E i \in SimpleTasks : s_outcomes[i].kind = "connector_error"
  /\ \E i \in SimpleTasks :
       s_outcomes[i].kind = "response" /\ s_ret[1][s_urls[i]] = 404

====
